---- MODULE Spec2Model ----
(***************************************************************************)
(* A model of the chip-8 virtual machine: Chip (chip.rs) owning a Cpu      *)
(* (cpu.rs), a Gpu (gpu.rs) and two Timers (timer.rs).                     *)
(*                                                                         *)
(* Arrays that start zeroed are kept as the map (memory) or the set (vram) *)
(* of their nonzero cells.  A Rust panic (index out of bounds,             *)
(* unimplemented!(), an arithmetic overflow in a checked build) aborts the *)
(* host process: it is recorded in the variable panic, after which nothing *)
(* runs.                                                                   *)
(***************************************************************************)
EXTENDS Integers, Sequences, FiniteSets, TLC

VARIABLES
    cpu,            \* Chip.cpu: the Cpu struct
    gpu,            \* Chip.gpu: the Gpu struct
    sound_timer,    \* Chip.sound_timer
    delay_timer,    \* Chip.delay_timer
    panic,          \* "none", or the panic that aborted the process
    last,           \* history: the last call made by the host
    calls,          \* history: return addresses of the CALLs not yet returned
    boots,          \* history: number of load()/reset()/halt() calls so far
    cycles,         \* history: cycles since the last load()/reset(), up to MaxCycles
    drew,           \* history: the vram before, and the arguments of, a DRW
                    \* that the last cycle ran
    gates,          \* history: per counter, the time since its previous
                    \* decrement by its timer, as the last cycle saw it
    loaded          \* history: the bytes of the ROM last given to load()

vars == <<cpu, gpu, sound_timer, delay_timer, panic, last, calls, boots, cycles,
          drew, gates, loaded>>

----------------------------------------------------------------------------
(* Bounds of the model *)

\* load(), reset() and halt() calls the host makes in one run
MaxBoots == 2
\* cycles the host runs after one load() or reset()
MaxCycles == 16
\* time quanta per gate period of a Timer, and the most that passes between
\* two cycles
GateQuanta == 2

----------------------------------------------------------------------------
(* Program constants *)

MemorySize == 4096
StackSize == 16
VramSize == 4096
ProgramStart == 512
BootEnd == 511
CARRY == 15

Byte == 0..255

BOOTROM ==
    << 240, 144, 144, 144, 240,
        32,  96,  32,  32, 112,
       240,  16, 240, 128, 240,
       240,  16, 240,  16, 240,
       144, 144, 240,  16,  16,
       240, 128, 240,  16, 240,
       240, 128, 240, 144, 240,
       240,  16,  32,  64,  64,
       240, 144, 240, 144, 240,
       240, 144, 240,  16, 240,
       240, 144, 240, 144, 144,
       224, 144, 224, 144, 224,
       240, 128, 128, 128, 240,
       224, 144, 144, 144, 224,
       240, 128, 240, 128, 240,
       240, 128, 240, 128, 128 >>

----------------------------------------------------------------------------
(* Machine arithmetic *)

Pow2(k) == 2 ^ k

\* bit k of x
Bit(x, k) == (x \div Pow2(k)) % 2

\* x & y, x | y, x ^ y, bit by bit from bit k up (operands below 2^16)
RECURSIVE AndFrom(_, _, _)
AndFrom(x, y, k) ==
    IF k = 16 THEN 0
    ELSE (Bit(x, k) * Bit(y, k)) * Pow2(k) + AndFrom(x, y, k + 1)

RECURSIVE OrFrom(_, _, _)
OrFrom(x, y, k) ==
    IF k = 16 THEN 0
    ELSE (IF Bit(x, k) + Bit(y, k) > 0 THEN 1 ELSE 0) * Pow2(k) + OrFrom(x, y, k + 1)

RECURSIVE XorFrom(_, _, _)
XorFrom(x, y, k) ==
    IF k = 16 THEN 0
    ELSE ((Bit(x, k) + Bit(y, k)) % 2) * Pow2(k) + XorFrom(x, y, k + 1)

BitAnd(x, y) == AndFrom(x, y, 0)
BitOr(x, y) == OrFrom(x, y, 0)
BitXor(x, y) == XorFrom(x, y, 0)

\* u8::overflowing_add / overflowing_sub: <<wrapped result, overflowed>>
OverflowingAdd(a, b) == <<(a + b) % 256, a + b > 255>>
OverflowingSub(a, b) == <<(a - b + 256) % 256, a < b>>

----------------------------------------------------------------------------
(* Zero-initialised arrays, kept by their nonzero cells *)

\* memory[a]
MemAt(memory, a) == IF a \in DOMAIN memory THEN memory[a] ELSE 0

\* memory[a] = b
MemPut(memory, a, b) ==
    IF b = 0
    THEN [x \in (DOMAIN memory) \ {a} |-> memory[x]]
    ELSE [x \in (DOMAIN memory) \cup {a} |-> IF x = a THEN b ELSE memory[x]]

\* (&mut memory[from..to]).write(bytes): copies as many bytes as fit
SliceWrite(memory, from, to, bytes) ==
    LET n == IF Len(bytes) < to - from THEN Len(bytes) ELSE to - from
        written == from .. (from + n - 1)
        nonzero == {a \in written : bytes[a - from + 1] # 0}
    IN [x \in ((DOMAIN memory) \ written) \cup nonzero |->
            IF x \in written THEN bytes[x - from + 1] ELSE memory[x]]

ZeroMemory == [x \in {} |-> 0]
ZeroStack == [k \in 0..(StackSize - 1) |-> 0]
ZeroV == [k \in 0..15 |-> 0]

----------------------------------------------------------------------------
(* timer.rs *)

TimerNew == [state |-> FALSE, elapsed |-> 0]

\* a tick that fires without restarting the clock
TimerTick_KeepsClock(t, adv) ==
    IF t.elapsed + adv >= GateQuanta
    THEN [state |-> TRUE, elapsed |-> GateQuanta]
    ELSE [state |-> FALSE, elapsed |-> t.elapsed + adv]

\* Timer::tick, `adv` quanta after the clock was last looked at
TimerTick(t, adv) ==
    IF t.elapsed + adv >= GateQuanta
    THEN [state |-> TRUE, elapsed |-> 0]
    ELSE [state |-> FALSE, elapsed |-> t.elapsed + adv]

TimerActive(t) == t.state

----------------------------------------------------------------------------
(* gpu.rs *)

GpuNew == [width |-> 64, height |-> 32, vram |-> {}]

GpuClear(g) == [g EXCEPT !.vram = {}]

GpuReset(g) == GpuClear(g)


\* the inner loop of Gpu::draw_sprite, from column px on, for the sprite byte
\* `pixel` of the row drawn at y + py = yy; acc is [vram, collision, panic].
\* Indexing vram out of range panics, leaving the pixels toggled so far.
RECURSIVE DrawRow(_, _, _, _, _, _)
DrawRow(px, acc, width, pixel, x, yy) ==
    IF px >= 8 \/ acc.panic # "none" THEN acc
    ELSE LET a == x + px + (yy * width)
         IN  IF Bit(pixel, 7 - px) # 0
             THEN IF a >= VramSize
                  THEN [acc EXCEPT !.panic = "index out of bounds"]
                  ELSE DrawRow(px + 1,
                          [acc EXCEPT
                              !.collision = acc.collision \/ (a \in acc.vram),
                              !.vram = IF a \in acc.vram
                                       THEN acc.vram \ {a}
                                       ELSE acc.vram \cup {a}],
                          width, pixel, x, yy)
             ELSE DrawRow(px + 1, acc, width, pixel, x, yy)

\* the outer loop of Gpu::draw_sprite, from sprite row py on.  Indexing
\* memory out of range panics, leaving the rows drawn so far.
RECURSIVE DrawFrom(_, _, _, _, _, _, _, _)
DrawFrom(py, acc, width, memory, addr, len, x, y) ==
    IF py >= len \/ acc.panic # "none" THEN acc
    ELSE IF addr + py >= MemorySize
    THEN [acc EXCEPT !.panic = "index out of bounds"]
    ELSE DrawFrom(py + 1,
                  DrawRow(0, acc, width, MemAt(memory, addr + py), x, y + py),
                  width, memory, addr, len, x, y)

\* a draw_sprite that lights pixels and never clears one
GpuDrawSprite_Sets(g, memory, addr, len, x, y) ==
    LET r == DrawFrom(0, [vram |-> g.vram, collision |-> FALSE, panic |-> "none"],
                      g.width, memory, addr, len, x, y)
    IN  [gpu |-> [g EXCEPT !.vram = r.vram \cup g.vram],
         collision |-> r.collision,
         panic |-> r.panic]

\* Gpu::draw_sprite: [gpu, collision, panic]
GpuDrawSprite(g, memory, addr, len, x, y) ==
    LET r == DrawFrom(0, [vram |-> g.vram, collision |-> FALSE, panic |-> "none"],
                      g.width, memory, addr, len, x, y)
    IN  [gpu |-> [g EXCEPT !.vram = r.vram],
         collision |-> r.collision,
         panic |-> r.panic]

----------------------------------------------------------------------------
(* cpu.rs: CpuContext *)

\* the context Chip::cycle builds, with the inputs the environment supplies
\* to one cycle: the random byte and whether the build traps on overflow
CpuContext(opcode, g, st, dt, rnd, overflow_checks) ==
    [opcode |-> opcode, gpu |-> g, sound_timer |-> st, delay_timer |-> dt,
     rnd |-> rnd, overflow_checks |-> overflow_checks]

\* (opcode & 0x0f00) >> 8, (opcode & 0x00f0) >> 4, opcode & 0x0fff, ...
CtxVx(ctx) == (ctx.opcode % 4096) \div 256
CtxVy(ctx) == (ctx.opcode % 256) \div 16
CtxNnn(ctx) == ctx.opcode % 4096
CtxNn(ctx) == ctx.opcode % 256
CtxN(ctx) == ctx.opcode % 16
CtxMsb(b) == (b % 256) \div 128

----------------------------------------------------------------------------
(* cpu.rs: Cpu *)

CpuNew ==
    [halted |-> FALSE, memory |-> ZeroMemory, stack |-> ZeroStack, v |-> ZeroV,
     i |-> 0, pc |-> 0, sp |-> 0, dt |-> 0, st |-> 0]

CpuAddr(self) == self.i % 4096

CpuLoad(self, code) ==
    LET boot == SliceWrite(self.memory, 0, BootEnd, BOOTROM)
    IN  [self EXCEPT !.memory = SliceWrite(boot, ProgramStart, MemorySize, code)]

\* a reset that leaves the two counters running
CpuReset_KeepsCounters(self) ==
    [self EXCEPT !.memory = ZeroMemory, !.v = ZeroV, !.i = 0,
                 !.pc = ProgramStart, !.sp = 0]

CpuReset(self) ==
    [self EXCEPT !.memory = ZeroMemory, !.v = ZeroV, !.i = 0,
                 !.pc = ProgramStart, !.sp = 0, !.dt = 0, !.st = 0]

CpuHalt(self) == [self EXCEPT !.halted = TRUE]

\* Cpu::step.  pc stays far below 2^16 (see PcNeverOverflows), so the
\* addition never traps or wraps.
CpuStep(self, n) ==
    LET s == [self EXCEPT !.pc = (self.pc + n) % 65536]
    IN  IF s.pc >= MemorySize THEN CpuHalt(s) ELSE s

\* Cpu::fetch: [opcode, panic]
CpuFetch(self) ==
    LET addr == self.pc
    IN  IF addr + 1 >= MemorySize
        THEN [opcode |-> 0, panic |-> "index out of bounds"]
        ELSE [opcode |-> MemAt(self.memory, addr) * 256
                            + MemAt(self.memory, addr + 1),
              panic |-> "none"]

\* what a handler or a cycle leaves behind
Done(self, ctx) == [self |-> self, ctx |-> ctx, panic |-> "none"]
Abort(self, ctx, why) == [self |-> self, ctx |-> ctx, panic |-> why]


WithV(self, x, b) == [self EXCEPT !.v[x] = b]

ld_i_spr(self, ctx) ==
    LET vx == self.v[CtxVx(ctx)]
    IN  Done([self EXCEPT !.i = (vx * 5) % 4096], ctx)

\* a RET that reads stack[sp] before it decrements sp
ret_ReadsBeforeDecrement(self, ctx) ==
    IF self.sp = 0 \/ self.sp >= StackSize
    THEN Abort(self, ctx, "index out of bounds")
    ELSE Done([self EXCEPT !.pc = self.stack[self.sp], !.sp = self.sp - 1], ctx)

\* sp -= 1 on an empty stack traps in a build with overflow checks and wraps
\* to 255 in one without, where stack[255] is then out of bounds
ret(self, ctx) ==
    IF self.sp = 0
    THEN IF ctx.overflow_checks
         THEN Abort(self, ctx, "attempt to subtract with overflow")
         ELSE Abort([self EXCEPT !.sp = 255], ctx, "index out of bounds")
    ELSE LET s == [self EXCEPT !.sp = self.sp - 1]
         IN  Done([s EXCEPT !.pc = s.stack[s.sp]], ctx)

exit(self, ctx) == Done(CpuHalt(self), ctx)

nop(self, ctx) == Done(CpuStep(self, 2), ctx)

sys(self, ctx) == Done(self, ctx)

cls(self, ctx) == Done(self, [ctx EXCEPT !.gpu = GpuClear(ctx.gpu)])

\* a CALL that increments sp before it stores the return address
call_StoresAfterIncrement(self, ctx) ==
    IF self.sp + 1 >= StackSize
    THEN Abort(self, ctx, "index out of bounds")
    ELSE Done([self EXCEPT !.stack[self.sp + 1] = self.pc,
                           !.sp = self.sp + 1,
                           !.pc = CtxNnn(ctx)], ctx)

call(self, ctx) ==
    IF self.sp >= StackSize
    THEN Abort(self, ctx, "index out of bounds")
    ELSE Done([self EXCEPT !.stack[self.sp] = self.pc,
                           !.sp = self.sp + 1,
                           !.pc = CtxNnn(ctx)], ctx)

jp(self, ctx) == Done([self EXCEPT !.pc = CtxNnn(ctx)], ctx)

se_vx_kk(self, ctx) ==
    IF self.v[CtxVx(ctx)] = CtxNn(ctx)
    THEN Done(CpuStep(self, 2), ctx)
    ELSE Done(self, ctx)

ld_vx_kk(self, ctx) == Done(WithV(self, CtxVx(ctx), CtxNn(ctx)), ctx)

add_vx_kk(self, ctx) ==
    LET vx == CtxVx(ctx)
    IN  Done(WithV(self, vx, OverflowingAdd(self.v[vx], CtxNn(ctx))[1]), ctx)

ld_vx_vy(self, ctx) == Done(WithV(self, CtxVx(ctx), self.v[CtxVy(ctx)]), ctx)

or(self, ctx) ==
    LET vx == CtxVx(ctx)
    IN  Done(WithV(self, vx, BitOr(self.v[vx], self.v[CtxVy(ctx)])), ctx)

and(self, ctx) ==
    LET vx == CtxVx(ctx)
    IN  Done(WithV(self, vx, BitAnd(self.v[vx], self.v[CtxVy(ctx)])), ctx)

xor(self, ctx) ==
    LET vx == CtxVx(ctx)
    IN  Done(WithV(self, vx, BitXor(self.v[vx], self.v[CtxVy(ctx)])), ctx)

\* an ADD Vx,Vy whose carry test is off by one
add_vx_vy_CarryAt255(self, ctx) ==
    LET vx == CtxVx(ctx)
        sum == self.v[vx] + self.v[CtxVy(ctx)]
        flagged == WithV(self, CARRY, IF sum >= 255 THEN 1 ELSE 0)
    IN  Done(WithV(flagged, vx, sum % 256), ctx)

\* the flag is written to v[CARRY] first, the result to v[vx] after it
add_vx_vy(self, ctx) ==
    LET vx == CtxVx(ctx)
        result == OverflowingAdd(self.v[vx], self.v[CtxVy(ctx)])
        flagged == WithV(self, CARRY, IF result[2] THEN 1 ELSE 0)
    IN  Done(WithV(flagged, vx, result[1]), ctx)

\* a SUB Vx,Vy that reports a borrow when the operands are equal
sub_vx_vy_StrictNoBorrow(self, ctx) ==
    LET vx == CtxVx(ctx)
        result == OverflowingSub(self.v[vx], self.v[CtxVy(ctx)])
        flagged == WithV(self, CARRY,
                         IF self.v[vx] > self.v[CtxVy(ctx)] THEN 1 ELSE 0)
    IN  Done(WithV(flagged, vx, result[1]), ctx)

sub_vx_vy(self, ctx) ==
    LET vx == CtxVx(ctx)
        result == OverflowingSub(self.v[vx], self.v[CtxVy(ctx)])
        flagged == WithV(self, CARRY, IF result[2] THEN 0 ELSE 1)
    IN  Done(WithV(flagged, vx, result[1]), ctx)

\* an SHR Vx that takes the flag from the shifted value
shr_FlagAfterShift(self, ctx) ==
    LET vx == CtxVx(ctx)
        shifted == WithV(self, vx, self.v[vx] \div 2)
    IN  Done(WithV(shifted, CARRY, shifted.v[vx] % 2), ctx)

\* v[vx] is read again, after the flag is written
shr(self, ctx) ==
    LET vx == CtxVx(ctx)
        flagged == WithV(self, CARRY, self.v[vx] % 2)
    IN  Done(WithV(flagged, vx, flagged.v[vx] \div 2), ctx)

subn(self, ctx) ==
    LET vx == CtxVx(ctx)
        result == OverflowingSub(self.v[CtxVy(ctx)], self.v[vx])
        flagged == WithV(self, CARRY, IF result[2] THEN 0 ELSE 1)
    IN  Done(WithV(flagged, vx, result[1]), ctx)

shl(self, ctx) ==
    LET vx == CtxVx(ctx)
        flagged == WithV(self, CARRY, CtxMsb(self.v[vx]))
    IN  Done(WithV(flagged, vx, (flagged.v[vx] * 2) % 256), ctx)

sne_vx_vy(self, ctx) ==
    IF self.v[CtxVx(ctx)] # self.v[CtxVy(ctx)]
    THEN Done(CpuStep(self, 2), ctx)
    ELSE Done(self, ctx)

se_vx_vy(self, ctx) ==
    IF self.v[CtxVx(ctx)] = self.v[CtxVy(ctx)]
    THEN Done(CpuStep(self, 2), ctx)
    ELSE Done(self, ctx)

sne_vx_kk(self, ctx) ==
    IF self.v[CtxVx(ctx)] # CtxNn(ctx)
    THEN Done(CpuStep(self, 2), ctx)
    ELSE Done(self, ctx)

ld(self, ctx) == Done([self EXCEPT !.i = CtxNnn(ctx)], ctx)

jp_v0_addr(self, ctx) ==
    Done([self EXCEPT !.pc = CtxNnn(ctx) + self.v[0]], ctx)

rnd(self, ctx) ==
    Done(WithV(self, CtxVx(ctx), BitAnd(ctx.rnd, CtxNn(ctx))), ctx)

\* a DRW that reports a collision only when it lit nothing
drw_FlagWhenNothingLit(self, ctx) ==
    LET x == self.v[CtxVx(ctx)]
        y == self.v[CtxVy(ctx)]
        result == GpuDrawSprite(ctx.gpu, self.memory, self.i, CtxN(ctx), x, y)
        drawn == [ctx EXCEPT !.gpu = result.gpu]
    IN  IF result.panic # "none"
        THEN Abort(self, drawn, result.panic)
        ELSE Done(WithV(self, CARRY,
                        IF result.gpu.vram \subseteq ctx.gpu.vram THEN 1 ELSE 0),
                  drawn)

drw(self, ctx) ==
    LET x == self.v[CtxVx(ctx)]
        y == self.v[CtxVy(ctx)]
        result == GpuDrawSprite(ctx.gpu, self.memory, self.i, CtxN(ctx), x, y)
        drawn == [ctx EXCEPT !.gpu = result.gpu]
    IN  IF result.panic # "none"
        THEN Abort(self, drawn, result.panic)
        ELSE Done(WithV(self, CARRY, IF result.collision THEN 1 ELSE 0), drawn)

skp(self, ctx) == Abort(self, ctx, "not implemented")

sknp(self, ctx) == Abort(self, ctx, "not implemented")

ld_vx_dt(self, ctx) == Done(WithV(self, CtxVx(ctx), self.dt), ctx)

ld_dt_vx(self, ctx) == Done([self EXCEPT !.dt = self.v[CtxVx(ctx)]], ctx)

ld_st_vx(self, ctx) == Done([self EXCEPT !.st = self.v[CtxVx(ctx)]], ctx)

\* an addition that stops at 0xFFF
add_i_vx_StopsAtTop(self, ctx) ==
    LET sum == self.i + self.v[CtxVx(ctx)]
    IN  Done([self EXCEPT !.i = IF sum > 4095 THEN 4095 ELSE sum], ctx)

\* u16::saturating_add, then the mask
add_i_vx(self, ctx) ==
    LET sum == self.i + self.v[CtxVx(ctx)]
        sat == IF sum > 65535 THEN 65535 ELSE sum
    IN  Done([self EXCEPT !.i = sat % 4096], ctx)

\* a conversion that stores v / 10 as the tens digit
ld_b_vx_TensNotReduced(self, ctx) ==
    LET v == self.v[CtxVx(ctx)]
        addr == self.i
        m0 == MemPut(self.memory, addr, (v \div 100) % 10)
        m1 == MemPut(m0, addr + 1, v \div 10)
        m2 == MemPut(m1, addr + 2, v % 10)
    IN  IF addr + 2 >= MemorySize THEN Abort(self, ctx, "index out of bounds")
        ELSE Done([self EXCEPT !.memory = m2], ctx)

\* the three digits are stored one after the other; the first store out of
\* range panics, the earlier ones done
ld_b_vx(self, ctx) ==
    LET v == self.v[CtxVx(ctx)]
        addr == self.i
        d0 == (v \div 100) % 10
        d1 == (v \div 10) % 10
        d2 == v % 10
        m0 == MemPut(self.memory, addr, d0)
        m1 == MemPut(m0, addr + 1, d1)
        m2 == MemPut(m1, addr + 2, d2)
    IN  IF addr >= MemorySize THEN Abort(self, ctx, "index out of bounds")
        ELSE IF addr + 1 >= MemorySize
        THEN Abort([self EXCEPT !.memory = m0], ctx, "index out of bounds")
        ELSE IF addr + 2 >= MemorySize
        THEN Abort([self EXCEPT !.memory = m1], ctx, "index out of bounds")
        ELSE Done([self EXCEPT !.memory = m2], ctx)

\* (&mut memory[addr..]).write(&v[0..vx]): v[vx] itself is not in the slice
ld_i_vx(self, ctx) ==
    LET vx == CtxVx(ctx)
        addr == CpuAddr(self)
        v == [k \in 1..vx |-> self.v[k - 1]]
    IN  Done([self EXCEPT !.memory = SliceWrite(self.memory, addr, MemorySize, v)],
             ctx)

\* (&mut v[0..vx]).write(&memory[addr..])
ld_vx_i(self, ctx) ==
    LET vx == CtxVx(ctx)
        addr == CpuAddr(self)
        n == IF vx < MemorySize - addr THEN vx ELSE MemorySize - addr
    IN  Done([self EXCEPT !.v = [k \in 0..15 |->
                 IF k < n THEN MemAt(self.memory, addr + k) ELSE self.v[k]]], ctx)


\* Cpu::decode: the handler chosen for an opcode; for 0xFx0A decode itself
\* runs unimplemented!()
CpuDecode(opcode) ==
    LET hi == opcode - (opcode % 4096)
    IN  CASE hi = 0 ->
                (CASE opcode = 224 -> "cls"
                   [] opcode = 238 -> "ret"
                   [] opcode = 253 -> "exit"
                   [] OTHER -> "sys")
          [] hi = 4096 -> "jp"
          [] hi = 8192 -> "call"
          [] hi = 12288 -> "se_vx_kk"
          [] hi = 16384 -> "sne_vx_kk"
          [] hi = 20480 -> "se_vx_vy"
          [] hi = 24576 -> "ld_vx_kk"
          [] hi = 28672 -> "add_vx_kk"
          [] hi = 32768 ->
                (LET lo == opcode % 16
                 IN  CASE lo = 0 -> "ld_vx_vy"
                       [] lo = 1 -> "or"
                       [] lo = 2 -> "and"
                       [] lo = 3 -> "xor"
                       [] lo = 4 -> "add_vx_vy"
                       [] lo = 5 -> "sub_vx_vy"
                       [] lo = 6 -> "shr"
                       [] lo = 7 -> "subn"
                       [] lo = 8 -> "shl"
                       [] OTHER -> "nop")
          [] hi = 36864 -> "sne_vx_vy"
          [] hi = 40960 -> "ld"
          [] hi = 45056 -> "jp_v0_addr"
          [] hi = 49152 -> "rnd"
          [] hi = 53248 -> "drw"
          [] hi = 57344 ->
                (LET lo == opcode % 256
                 IN  CASE lo = 158 -> "skp"
                       [] lo = 161 -> "sknp"
                       [] OTHER -> "nop")
          [] hi = 61440 ->
                (LET lo == opcode % 256
                 IN  CASE lo = 7 -> "ld_vx_dt"
                       [] lo = 10 -> "unimplemented"
                       [] lo = 21 -> "ld_dt_vx"
                       [] lo = 24 -> "ld_st_vx"
                       [] lo = 30 -> "add_i_vx"
                       [] lo = 41 -> "ld_i_spr"
                       [] lo = 51 -> "ld_b_vx"
                       [] lo = 85 -> "ld_i_vx"
                       [] lo = 101 -> "ld_vx_i"
                       [] OTHER -> "nop")
          [] OTHER -> "nop"

\* op(self, ctx), for the handler decode returned
Exec(op, self, ctx) ==
    CASE op = "cls" -> cls(self, ctx)
      [] op = "ret" -> ret(self, ctx)
      [] op = "exit" -> exit(self, ctx)
      [] op = "sys" -> sys(self, ctx)
      [] op = "jp" -> jp(self, ctx)
      [] op = "call" -> call(self, ctx)
      [] op = "se_vx_kk" -> se_vx_kk(self, ctx)
      [] op = "sne_vx_kk" -> sne_vx_kk(self, ctx)
      [] op = "se_vx_vy" -> se_vx_vy(self, ctx)
      [] op = "ld_vx_kk" -> ld_vx_kk(self, ctx)
      [] op = "add_vx_kk" -> add_vx_kk(self, ctx)
      [] op = "ld_vx_vy" -> ld_vx_vy(self, ctx)
      [] op = "or" -> or(self, ctx)
      [] op = "and" -> and(self, ctx)
      [] op = "xor" -> xor(self, ctx)
      [] op = "add_vx_vy" -> add_vx_vy(self, ctx)
      [] op = "sub_vx_vy" -> sub_vx_vy(self, ctx)
      [] op = "shr" -> shr(self, ctx)
      [] op = "subn" -> subn(self, ctx)
      [] op = "shl" -> shl(self, ctx)
      [] op = "sne_vx_vy" -> sne_vx_vy(self, ctx)
      [] op = "ld" -> ld(self, ctx)
      [] op = "jp_v0_addr" -> jp_v0_addr(self, ctx)
      [] op = "rnd" -> rnd(self, ctx)
      [] op = "drw" -> drw(self, ctx)
      [] op = "skp" -> skp(self, ctx)
      [] op = "sknp" -> sknp(self, ctx)
      [] op = "ld_vx_dt" -> ld_vx_dt(self, ctx)
      [] op = "ld_dt_vx" -> ld_dt_vx(self, ctx)
      [] op = "ld_st_vx" -> ld_st_vx(self, ctx)
      [] op = "add_i_vx" -> add_i_vx(self, ctx)
      [] op = "ld_i_spr" -> ld_i_spr(self, ctx)
      [] op = "ld_b_vx" -> ld_b_vx(self, ctx)
      [] op = "ld_i_vx" -> ld_i_vx(self, ctx)
      [] op = "ld_vx_i" -> ld_vx_i(self, ctx)
      [] OTHER -> nop(self, ctx)

\* the timer part of Cpu::cycle
CpuTimers(self, ctx) ==
    LET s == IF self.st > 0 /\ TimerActive(ctx.sound_timer)
             THEN [self EXCEPT !.st = self.st - 1] ELSE self
    IN  IF s.dt > 0 /\ TimerActive(ctx.delay_timer)
        THEN [s EXCEPT !.dt = s.dt - 1] ELSE s

\* a cycle that does not look at halted
CpuCycle_IgnoresHalted(self, ctx) ==
    LET s == CpuTimers(self, ctx)
        f == CpuFetch(s)
        op == CpuDecode(f.opcode)
    IN  IF f.panic # "none" THEN Abort(s, ctx, f.panic)
        ELSE IF op = "unimplemented" THEN Abort(s, ctx, "not implemented")
        ELSE Exec(op, CpuStep(s, 2), [ctx EXCEPT !.opcode = f.opcode])

\* Cpu::cycle
CpuCycle(self, ctx) ==
    IF self.halted THEN Done(self, ctx)
    ELSE LET s == CpuTimers(self, ctx)
             f == CpuFetch(s)
             op == CpuDecode(f.opcode)
         IN  IF f.panic # "none" THEN Abort(s, ctx, f.panic)
             ELSE IF op = "unimplemented" THEN Abort(s, ctx, "not implemented")
             ELSE Exec(op, CpuStep(s, 2), [ctx EXCEPT !.opcode = f.opcode])


----------------------------------------------------------------------------
(* The ROMs the host loads and the inputs of a cycle *)

\* big-endian bytes of a sequence of opcodes
RomOf(words) ==
    [k \in 1..(2 * Len(words)) |->
        IF k % 2 = 1 THEN words[(k + 1) \div 2] \div 256
                     ELSE words[k \div 2] % 256]

\* `words`, then zeros up to address `at`, then `tail`
RomWithTail(words, at, tail) ==
    LET gap == ((at - ProgramStart) \div 2) - Len(words)
    IN  RomOf(words \o [k \in 1..gap |-> 0] \o tail)

Roms ==
    { RomOf(<<24581, 28675, 253>>),             \* LD V0,5; ADD V0,3; EXIT
      RomOf(<<8710, 253, 0, 8714, 238, 238>>),  \* two nested CALLs, two RETs
      RomWithTail(<<8960, 253>>, 768, <<238>>), \* CALL 0x300; EXIT; 0x300: RET
      RomOf(<<238>>),                           \* RET on an empty stack
      RomOf(<<24831, 49151>>),                  \* LD V0,FF; JP V0,0xFFF
      RomOf(<<8190>>),                          \* JP 0xFFE
      RomOf(<<8191>>),                          \* JP 0xFFF
      \* SE V0,30 written to 0xFFC, and to 0xFFE, then jumped to
      RomOf(<<24624, 24880, 45052, 62037, 8188>>),
      RomOf(<<24624, 24880, 45054, 62037, 8190>>),
      \* CALL 0x200 written to 0xFFE, then jumped to
      RomOf(<<24610, 45054, 62037, 8190>>),
      RomOf(<<32777, 24577, 57344, 24578, 61695, 24579, 253>>),  \* 8009, E000, F0FF
      RomOf(<<24705, 32782, 32776, 253>>),      \* LD V0,81; 800E; 8008 (SHL)
      RomOf(<<57502>>),                         \* SKP V0
      RomOf(<<57505>>),                         \* SKNP V0
      RomOf(<<61450>>),                         \* LD V0,K
      RomOf(<<40960, 53253, 53253, 224, 253>>), \* LD I,0; DRW twice; CLS
      RomOf(<<24831, 25087, 40960, 53269>>),    \* DRW at (255,255)
      RomOf(<<45054, 61491>>),                  \* LD I,0xFFE; LD B,V0
      RomOf(<<24837, 12549, 0, 12550, 16646, 0, 16645, 20768, 37152, 0,
              20752, 0, 37136, 253>>),          \* every skip, taken and not
      RomOf(<<24826, 24842, 32788, 32789, 32791, 32774, 32776, 32785,
              32786, 32787, 28927, 33024, 253>>),     \* register arithmetic
      RomOf(<<24578, 61461, 61464, 61703, 12544, 4614, 253>>),  \* timers
      RomOf(<<41728, 24577, 24834, 62037, 62053, 61470, 61481, 61491, 253>>),
      RomOf(<<49407, 253>>),                    \* RND V0,FF
      RomOf(<< >>)                              \* nothing: SYS all the way
    }

\* 16 nested CALLs from 16 call sites, each returned from; EXIT at the end
RomDeepCalls ==
    RomOf([k \in 1..33 |->
            IF k = 33 THEN 238
            ELSE IF k % 2 = 1 THEN 8192 + ProgramStart + 2 * (k + 1)
            ELSE IF k = 2 THEN 253 ELSE 238])

\* the ROMs that fill the call stack
CallRoms ==
    { RomDeepCalls,
      RomOf(<<8704>>),                          \* CALL 0x200, without end
      RomOf(<<8708, 238, 8704>>),               \* CALL 0x204; RET; CALL 0x204...
      RomOf(<<8710, 253, 0, 8714, 238, 238>>),  \* two nested CALLs, two RETs
      RomWithTail(<<8960, 253>>, 768, <<238>>), \* CALL 0x300; EXIT; 0x300: RET
      RomOf(<<24610, 45054, 62037, 8190>>),     \* CALL 0x200 at 0xFFE
      RomOf(<<238>>) }                          \* RET on an empty stack

\* register values and register numbers the arithmetic ROMs are made of
AluBytes == {0, 1, 7, 8, 127, 128, 200, 255}
AluX == {0, 14, 15}
AluY == {0, 1, 15}

\* LD Vx,a; LD Vy,b; one of ADD, SUB, SHR, SUBN, SHL Vx,Vy; EXIT
AluRoms ==
    { RomOf(<<24576 + 256 * x + a, 24576 + 256 * y + b,
              32768 + 256 * x + 16 * y + f, 253>>) :
        x \in AluX, y \in AluY, a \in AluBytes, b \in AluBytes, f \in 4..8 }

\* positions, sprite addresses and sprite heights the drawing ROMs are made of:
\* inside the 64x32 grid, across its right and bottom edges, below it, and
\* past the end of vram; the glyph table, zeroed memory, the end of memory
DrawX == {0, 5, 56, 60, 255}
DrawY == {0, 27, 31, 40, 63}
DrawI == {0, 768, 4094}
DrawN == {0, 1, 5, 15}

\* LD V0,x; LD V1,y; LD I,a; DRW V0,V1,n three times; LD I,5; DRW V0,V1,n;
\* EXIT
DrawRoms ==
    { RomOf(<<24576 + x, 24832 + y, 40960 + a, 53264 + n, 53264 + n,
              53264 + n, 40965, 53264 + n, 253>>) :
        x \in DrawX, y \in DrawY, a \in DrawI, n \in DrawN }

\* the ROMs that count the timers down
TimerRoms ==
    { RomOf(<<24581, 61461, 61464, 4614>>),     \* V0 = 5; DT = ST = V0; loop
      \* V0 = 2; DT = V0; wait for DT = 0; start again
      RomOf(<<24578, 61461, 61703, 12544, 4612, 4608>>),
      RomOf(<<24577, 61464, 253>>) }            \* V0 = 1; ST = V0; EXIT

\* the bytes the random source returns
RandomBytes == {0, 165, 255}

----------------------------------------------------------------------------
(* chip.rs: Chip, and the host that drives it *)

\* history of the DRW the last cycle ran, if it ran one to its end: the vram
\* before it, and its opcode, I, Vx and Vy
NoDraw == [vram |-> {}, at |-> << >>]
DrawnAfter(nx, self, g, aborted) ==
    IF nx.op = "drw" /\ ~aborted
    THEN [vram |-> g.vram,
          at |-> <<nx.opcode, self.i, self.v[(nx.opcode \div 256) % 16],
                   self.v[(nx.opcode \div 16) % 16]>>]
    ELSE NoDraw

\* history of one counter's gate: `gap` is the time from the counter's
\* previous decrement by its timer to this cycle (GateQuanta standing for
\* that or more), `dec` whether this cycle's timer part decremented it
NoGate == [gap |-> 0, dec |-> FALSE]
GateSeen(g, adv, dec) ==
    LET since == IF g.dec THEN 0 ELSE g.gap
    IN  [gap |-> IF since + adv >= GateQuanta THEN GateQuanta ELSE since + adv,
         dec |-> dec]

Init ==
    /\ cpu = CpuNew
    /\ gpu = GpuNew
    /\ sound_timer = TimerNew
    /\ delay_timer = TimerNew
    /\ panic = "none"
    /\ last = [op |-> "new", opcode |-> -1, pc |-> 0]
    /\ calls = << >>
    /\ boots = 0
    /\ cycles = 0
    /\ drew = NoDraw
    /\ gates = [dt |-> NoGate, st |-> NoGate]
    /\ loaded = << >>

\* Chip::reset
Reset ==
    /\ panic = "none"
    /\ boots < MaxBoots
    /\ cpu' = CpuReset(cpu)
    /\ gpu' = GpuReset(gpu)
    /\ last' = [op |-> "reset", opcode |-> -1, pc |-> cpu.pc]
    /\ calls' = << >>
    /\ boots' = boots + 1
    /\ cycles' = 0
    /\ drew' = NoDraw
    /\ UNCHANGED <<sound_timer, delay_timer, panic, gates, loaded>>

\* Chip::load
Load(rom) ==
    /\ panic = "none"
    /\ boots < MaxBoots
    /\ cpu' = CpuLoad(CpuReset(cpu), rom)
    /\ gpu' = GpuReset(gpu)
    /\ last' = [op |-> "load", opcode |-> -1, pc |-> cpu.pc]
    /\ calls' = << >>
    /\ boots' = boots + 1
    /\ cycles' = 0
    /\ drew' = NoDraw
    /\ loaded' = rom
    /\ UNCHANGED <<sound_timer, delay_timer, panic, gates>>

\* Cpu::halt, called from outside a cycle
Halt ==
    /\ panic = "none"
    /\ boots < MaxBoots
    /\ ~cpu.halted
    /\ cpu' = CpuHalt(cpu)
    /\ last' = [op |-> "halt", opcode |-> -1, pc |-> cpu.pc]
    /\ boots' = boots + 1
    /\ drew' = NoDraw
    /\ UNCHANGED <<gpu, sound_timer, delay_timer, panic, calls, cycles, gates,
                   loaded>>

\* the instruction the next cycle executes: its opcode and handler, "none"
\* when the cycle does not get to decode one
NextOp(self) ==
    IF self.halted \/ CpuFetch(self).panic # "none"
    THEN [opcode |-> -1, op |-> "none"]
    ELSE [opcode |-> CpuFetch(self).opcode,
          op |-> CpuDecode(CpuFetch(self).opcode)]

\* history of the CALLs in progress: a CALL that ran adds the address after
\* it, a RET that ran takes the newest away
CallsAfter(before, op, pcBefore, aborted) ==
    IF aborted THEN before
    ELSE IF op = "call" THEN Append(before, pcBefore + 2)
    ELSE IF op = "ret" /\ Len(before) > 0 THEN SubSeq(before, 1, Len(before) - 1)
    ELSE before

\* Chip::cycle, `adv` quanta after the previous one (Gpu::render only reads).
\* The host of chip.rs draws, and so cycles, only a Chip it has loaded.
Cycle(adv, byte, overflow_checks) ==
    /\ panic = "none"
    /\ last.op # "new"
    /\ LET st == TimerTick(sound_timer, adv)
           dt == TimerTick(delay_timer, adv)
           ctx == CpuContext(0, gpu, st, dt, byte, overflow_checks)
           r == CpuCycle(cpu, ctx)
           nx == NextOp(cpu)
       IN  /\ sound_timer' = st
           /\ delay_timer' = dt
           /\ cpu' = r.self
           /\ gpu' = r.ctx.gpu
           /\ panic' = r.panic
           /\ last' = [op |-> "cycle", opcode |-> nx.opcode, pc |-> cpu.pc]
           /\ calls' = CallsAfter(calls, nx.op, cpu.pc, r.panic # "none")
           /\ drew' = DrawnAfter(nx, cpu, gpu, r.panic # "none")
           /\ gates' = LET timed == IF cpu.halted THEN cpu ELSE CpuTimers(cpu, ctx)
                       IN  [dt |-> GateSeen(gates.dt, adv, timed.dt # cpu.dt),
                            st |-> GateSeen(gates.st, adv, timed.st # cpu.st)]
    /\ cycles' = IF cycles < MaxCycles THEN cycles + 1 ELSE cycles
    /\ UNCHANGED <<boots, loaded>>

\* what the environment feeds a cycle; a random byte is drawn only by RND,
\* and the build's overflow checks matter only to a RET on an empty stack
RndInputs == IF NextOp(cpu).op = "rnd" THEN RandomBytes ELSE {0}
CheckInputs == IF NextOp(cpu).op = "ret" /\ cpu.sp = 0 THEN BOOLEAN ELSE {TRUE}

\* the host: any ROM, reset and reloaded, MaxCycles cycles after each, a
\* cycle every gate period (NextTimers varies the cadence)
Next ==
    \/ Reset
    \/ \E rom \in Roms : Load(rom)
    \/ Halt
    \/ /\ cycles < MaxCycles
       /\ \E adv \in {GateQuanta}, byte \in RndInputs, oc \in CheckInputs :
            Cycle(adv, byte, oc)

Spec == Init /\ [][Next]_vars

\* the host that loads one ROM of nested calls and runs it to its end
NextCalls ==
    \/ \E rom \in CallRoms : last.op = "new" /\ Load(rom)
    \/ \E adv \in 0..GateQuanta, byte \in RndInputs, oc \in CheckInputs :
            Cycle(adv, byte, oc)

SpecCalls == Init /\ [][NextCalls]_vars

\* the host that loads one drawing ROM and runs it to its end, a cycle per
\* quantum
NextDraw ==
    \/ \E rom \in DrawRoms : last.op = "new" /\ Load(rom)
    \/ ~cpu.halted /\ Cycle(1, 0, TRUE)

SpecDraw == Init /\ [][NextDraw]_vars

\* the host that loads one timer ROM and cycles it at any cadence
NextTimers ==
    \/ \E rom \in TimerRoms : last.op = "new" /\ Load(rom)
    \/ \E adv \in 0..GateQuanta : Cycle(adv, 0, TRUE)

SpecTimers == Init /\ [][NextTimers]_vars

\* the host that loads one arithmetic ROM and runs it to its end, a cycle per
\* quantum
NextAlu ==
    \/ \E rom \in AluRoms : last.op = "new" /\ Load(rom)
    \/ ~cpu.halted /\ Cycle(1, 0, TRUE)

SpecAlu == Init /\ [][NextAlu]_vars


----------------------------------------------------------------------------
(* Properties *)

\* the cycle from this state to the next fetched and ran an instruction
\* whose opcode is in `opcodes`
Ran(opcodes) == last'.op = "cycle" /\ NextOp(cpu).opcode \in opcodes

CallOpcodes == 8192..12287
RetOpcode == 238

\* pc + n stays far below 2^16: Cpu::step never overflows
PcNeverOverflows == cpu.pc < 65532

\* C1: no cycle aborts the host process: no index out of range, no overflow
\* trap, no unimplemented!() is reached from any loaded ROM.
C1_NeverAborts == panic = "none"

\* C2: a cycle of a halted machine changes nothing of the Cpu (pc, v, i, sp,
\* stack, dt, st, memory, halted itself) and nothing of the framebuffer.
C2_HaltedCycleIsNoOp ==
    [][(cpu.halted /\ last'.op = "cycle") => (cpu' = cpu /\ gpu' = gpu)]_vars

C2_Witness ==
    /\ cpu.halted /\ last.op = "cycle" /\ last.opcode = -1
    /\ cycles >= 2 /\ panic = "none"

\* C3: right after reset() or load() the machine is Running, whatever it
\* was before.
C3_ResetRuns == last.op \in {"reset", "load"} => ~cpu.halted

\* C4: a machine that is Running has pc <= 0xFFF.
C4_RunningPcInMemory ==
    (~cpu.halted /\ panic = "none") => cpu.pc <= MemorySize - 1


C6_RetReturnsToMatchingCall ==
    [][(Ran({RetOpcode}) /\ Len(calls) > 0) =>
            /\ panic' = "none"
            /\ cpu'.pc = calls[Len(calls)]
            /\ cpu'.sp = Len(calls) - 1
            /\ calls' = SubSeq(calls, 1, Len(calls) - 1)]_vars

\* the sixteenth and last RET of RomDeepCalls has returned to 0x202
C6_Witness ==
    /\ last.op = "cycle" /\ last.opcode = RetOpcode
    /\ cpu.sp = 0 /\ cpu.pc = 514 /\ calls = << >>
    /\ cpu.stack[StackSize - 1] = 574
    /\ panic = "none"

\* C7: a CALL run with sp = 16 leaves the machine Halted, the process alive
\* and sp at 16.
C7_StackOverflowHalts ==
    [][(Ran(CallOpcodes) /\ cpu.sp = StackSize) =>
            (panic' = "none" /\ cpu'.halted /\ cpu'.sp = StackSize)]_vars

\* C8: a RET run with sp = 0 leaves the machine Halted, the process alive
\* and sp at 0.
C8_StackUnderflowHalts ==
    [][(Ran({RetOpcode}) /\ cpu.sp = 0) =>
            (panic' = "none" /\ cpu'.halted /\ cpu'.sp = 0)]_vars

\* the opcodes of the claim's examples that match no instruction: 0x8xy9,
\* 0xExNN with NN not 9E or A1, 0xFxNN with NN none of the defined low bytes
UndefinedOpcodes ==
    {o \in 0..65535 :
        \/ o \div 4096 = 8 /\ o % 16 = 9
        \/ o \div 4096 = 14 /\ o % 256 \notin {158, 161}
        \/ o \div 4096 = 15 /\ o % 256 \notin {7, 10, 21, 24, 30, 41, 51, 85, 101}}

\* C9: a cycle that fetches an opcode matching no instruction leaves the
\* machine Halted.
C9_UndefinedOpcodeHalts ==
    [][Ran(UndefinedOpcodes) => cpu'.halted]_vars


\* the instructions the decoder defines, by what they do to pc
SkipOpcodes == {o \in 0..65535 : o \div 4096 \in {3, 4, 5, 9}}
PlainOpcodes ==
    {o \in 0..65535 :
        \/ o \div 4096 = 0 /\ o \notin {RetOpcode, 253}
        \/ o \div 4096 \in {6, 7, 10, 12, 13}
        \/ o \div 4096 = 8 /\ o % 16 <= 8
        \/ o \div 4096 = 14 /\ o % 256 \in {158, 161}
        \/ o \div 4096 = 15 /\ o % 256 \in {7, 10, 21, 24, 30, 41, 51, 85, 101}}

\* whether the skip `o` skips, given the registers v
SkipTaken(o, v) ==
    LET x == (o \div 256) % 16
        y == (o \div 16) % 16
        kk == o % 256
    IN  CASE o \div 4096 = 3 -> v[x] = kk
          [] o \div 4096 = 4 -> v[x] # kk
          [] o \div 4096 = 5 -> v[x] = v[y]
          [] o \div 4096 = 9 -> v[x] # v[y]

\* C10: a cycle that fetches any instruction but JP, CALL, RET, JP V0,addr
\* and EXIT runs it to its end and leaves pc 2 after the instruction; a skip
\* (SE, SNE) leaves it 4 after when its condition holds, and 2 after when it
\* does not.
C10_PcAdvance ==
    [][(Ran(PlainOpcodes) => panic' = "none" /\ cpu'.pc = cpu.pc + 2)
       /\ (Ran(SkipOpcodes) =>
              /\ panic' = "none"
              /\ cpu'.pc = cpu.pc + (IF SkipTaken(NextOp(cpu).opcode, cpu.v)
                                     THEN 4 ELSE 2))]_vars

\* the cycles that do run to their end advance pc as C10 says
CompletedStepAdvances ==
    (panic = "none" /\ last.op = "cycle") =>
        /\ last.opcode \in PlainOpcodes => cpu.pc = last.pc + 2
        /\ last.opcode \in SkipOpcodes =>
              cpu.pc = last.pc + (IF SkipTaken(last.opcode, cpu.v) THEN 4 ELSE 2)

----------------------------------------------------------------------------
(* Register arithmetic: C11 to C14 *)

\* the register numbers in an opcode
OpX(o) == (o \div 256) % 16
OpY(o) == (o \div 16) % 16

\* the opcodes 0x8xyf that the decoder gives to one handler
AluOpcodes(f) == {o \in 32768..36863 : o % 16 = f}
AddOpcodes == AluOpcodes(4)
SubOpcodes == AluOpcodes(5)
ShrOpcodes == AluOpcodes(6)
SubnOpcodes == AluOpcodes(7)
ShlOpcodes == AluOpcodes(8)

\* the registers Vx (a) and Vy (b) of the instruction about to run
OperandA == cpu.v[OpX(NextOp(cpu).opcode)]
OperandB == cpu.v[OpY(NextOp(cpu).opcode)]
\* Vx after the instruction
ResultX == cpu'.v[OpX(NextOp(cpu).opcode)]
\* the instruction about to run has x in 0..E
NotOnFlag == OpX(NextOp(cpu).opcode) # CARRY

\* C11: ADD Vx,Vy with x in 0..E leaves Vx = (a+b) mod 256 and VF = 1 if
\* a+b > 255, else VF = 0, for the values a, b of Vx, Vy before it.
C11_AddCarry ==
    [][(Ran(AddOpcodes) /\ NotOnFlag) =>
            /\ ResultX = (OperandA + OperandB) % 256
            /\ cpu'.v[CARRY] = (IF OperandA + OperandB > 255 THEN 1 ELSE 0)]_vars

\* ADD V0,V1 has run on 200 and 128: V0 = 72, VF = 1
C11_Witness ==
    /\ last.op = "cycle" /\ last.opcode = 32788
    /\ cpu.v[0] = 72 /\ cpu.v[1] = 128 /\ cpu.v[CARRY] = 1
    /\ panic = "none"

\* C12: with x in 0..E, SUB Vx,Vy leaves Vx = (a-b) mod 256 and VF = 1 iff
\* a >= b; SUBN Vx,Vy leaves Vx = (b-a) mod 256 and VF = 1 iff b >= a.
C12_SubBorrow ==
    [][/\ (Ran(SubOpcodes) /\ NotOnFlag) =>
            /\ ResultX = (OperandA - OperandB) % 256
            /\ cpu'.v[CARRY] = (IF OperandA >= OperandB THEN 1 ELSE 0)
       /\ (Ran(SubnOpcodes) /\ NotOnFlag) =>
            /\ ResultX = (OperandB - OperandA) % 256
            /\ cpu'.v[CARRY] = (IF OperandB >= OperandA THEN 1 ELSE 0)]_vars

\* SUBN V0,V1 has run on 200 and 7: V0 = 63, VF = 0
C12_Witness ==
    /\ last.op = "cycle" /\ last.opcode = 32791
    /\ cpu.v[0] = 63 /\ cpu.v[1] = 7 /\ cpu.v[CARRY] = 0
    /\ panic = "none"

\* C13: with x in 0..E, SHR Vx leaves Vx = a div 2 and VF = a mod 2; SHL Vx
\* leaves Vx = (2*a) mod 256 and VF = a div 128.
C13_Shifts ==
    [][/\ (Ran(ShrOpcodes) /\ NotOnFlag) =>
            /\ ResultX = OperandA \div 2
            /\ cpu'.v[CARRY] = OperandA % 2
       /\ (Ran(ShlOpcodes) /\ NotOnFlag) =>
            /\ ResultX = (2 * OperandA) % 256
            /\ cpu'.v[CARRY] = OperandA \div 128]_vars

\* SHR V0 has run on 7: V0 = 3, VF = 1
C13_Witness ==
    /\ last.op = "cycle" /\ last.opcode \in ShrOpcodes /\ OpX(last.opcode) = 0
    /\ cpu.v[0] = 3 /\ cpu.v[CARRY] = 1
    /\ panic = "none"

\* C14: when x = F, ADD, SUB, SUBN, SHR and SHL leave in VF a value computed
\* from the registers as they were before the instruction: the flag or the
\* result, never a result computed from the flag just written.
C14_FlagNotReadBack ==
    [][(last'.op = "cycle" /\ ~NotOnFlag) =>
        /\ Ran(AddOpcodes) =>
              cpu'.v[CARRY] \in {(OperandA + OperandB) % 256,
                                 IF OperandA + OperandB > 255 THEN 1 ELSE 0}
        /\ Ran(SubOpcodes) =>
              cpu'.v[CARRY] \in {(OperandA - OperandB) % 256,
                                 IF OperandA >= OperandB THEN 1 ELSE 0}
        /\ Ran(SubnOpcodes) =>
              cpu'.v[CARRY] \in {(OperandB - OperandA) % 256,
                                 IF OperandB >= OperandA THEN 1 ELSE 0}
        /\ Ran(ShrOpcodes) =>
              cpu'.v[CARRY] \in {OperandA \div 2, OperandA % 2}
        /\ Ran(ShlOpcodes) =>
              cpu'.v[CARRY] \in {(2 * OperandA) % 256, OperandA \div 128}]_vars

----------------------------------------------------------------------------
(* Drawing: C15 to C17 *)

DrwOpcodes == 53248..57343

\* the sprite of the DRW about to run: its height, and the <<row, column>>
\* of its set bits, the most significant bit of a byte being column 0
SpriteLen == NextOp(cpu).opcode % 16
SpriteInMemory == cpu.i + SpriteLen <= MemorySize
SpriteBits ==
    {rc \in (0..(SpriteLen - 1)) \X (0..7) :
        (MemAt(cpu.memory, cpu.i + rc[1]) \div Pow2(7 - rc[2])) % 2 = 1}

\* the sprite lies inside the 64x32 grid
SpriteInGrid ==
    \A rc \in SpriteBits :
        OperandA + rc[2] < gpu.width /\ OperandB + rc[1] < gpu.height

\* the vram cells under the sprite's set bits, at (Vx + column, Vy + row)
SpriteCells ==
    {(OperandA + rc[2]) + (OperandB + rc[1]) * gpu.width : rc \in SpriteBits}

\* the same, with the coordinates taken modulo the width and the height
TorusCells ==
    {((OperandA + rc[2]) % gpu.width)
        + ((OperandB + rc[1]) % gpu.height) * gpu.width : rc \in SpriteBits}

\* the pixels of `vram` with those of `cells` toggled
Toggled(vram, cells) == (vram \ cells) \cup (cells \ vram)

SameDrawAgain ==
    /\ Ran(DrwOpcodes)
    /\ drew.at = <<NextOp(cpu).opcode, cpu.i, OperandA, OperandB>>

\* C16 as stated: the second of two identical DRWs in a row returns vram to
\* what it was before the first, and leaves VF = 1.
C16_DrawTwiceRestoresAndCollides ==
    [][SameDrawAgain =>
            /\ panic' = "none"
            /\ gpu'.vram = drew.vram
            /\ cpu'.v[CARRY] = 1]_vars

\* C16 amended: the second of two identical DRWs in a row returns vram to
\* what it was before the first, and leaves VF = 1 exactly when the first
\* lit at least one pixel.
C16_DrawTwiceRestores ==
    [][SameDrawAgain =>
            /\ panic' = "none"
            /\ gpu'.vram = drew.vram
            /\ cpu'.v[CARRY] = (IF gpu.vram \ drew.vram # {} THEN 1 ELSE 0)]_vars

\* a glyph drawn twice on a blank screen: the screen is blank again, VF = 1
C16_Witness ==
    /\ last.op = "cycle" /\ last.opcode = 53269
    /\ drew.at = <<53269, 0, 5, 27>> /\ drew.vram # {}
    /\ gpu.vram = {} /\ cpu.v[CARRY] = 1
    /\ panic = "none"

\* C17: a DRW whose sprite bytes lie in memory toggles, for each set bit,
\* the pixel ((Vx + column) mod 64, (Vy + row) mod 32), and no pixel outside
\* the 64x32 grid is ever lit.
C17_DrawWraps ==
    [][(Ran(DrwOpcodes) /\ SpriteInMemory) =>
            /\ panic' = "none"
            /\ gpu'.vram = Toggled(gpu.vram, TorusCells)
            /\ gpu'.vram \subseteq 0..(gpu.width * gpu.height - 1)]_vars

----------------------------------------------------------------------------
(* Timers: C18 *)

\* C18: DT and ST never go below 0; a cycle whose instruction does not load
\* the counter leaves it as it was or, when it is nonzero and its gate has
\* fired in this cycle, one lower; and a counter's decrements by its timer
\* are at least a gate period apart, however many cycles fall in between.
C18_TimersCountDown ==
    /\ [](/\ cpu.dt >= 0 /\ cpu.st >= 0
          /\ gates.dt.dec => gates.dt.gap >= GateQuanta
          /\ gates.st.dec => gates.st.gap >= GateQuanta)
    /\ [][last'.op = "cycle" =>
            /\ NextOp(cpu).op # "ld_dt_vx" =>
                  \/ cpu'.dt = cpu.dt
                  \/ /\ cpu.dt > 0 /\ cpu'.dt = cpu.dt - 1
                     /\ TimerActive(delay_timer')
            /\ NextOp(cpu).op # "ld_st_vx" =>
                  \/ cpu'.st = cpu.st
                  \/ /\ cpu.st > 0 /\ cpu'.st = cpu.st - 1
                     /\ TimerActive(sound_timer')]_vars

\* DT was set to 5 and has counted down to 0; the gate has fired once more
\* and DT is still 0
C18_Witness ==
    /\ last.op = "cycle" /\ last.opcode = 4614
    /\ cpu.v[0] = 5 /\ cpu.dt = 0 /\ cpu.st = 0
    /\ TimerActive(delay_timer) /\ ~gates.dt.dec
    /\ panic = "none"

----------------------------------------------------------------------------
(* Keys and reset: C19, C20 *)

LdVxKOpcodes == {o \in 61440..65535 : o % 256 = 10}

\* C19: a cycle that fetches LD Vx,K either sees no key, and leaves pc at the
\* instruction and the registers as they were, or sees a key k in 0..F, and
\* leaves Vx = k and pc 2 further.
C19_WaitForKey ==
    [][Ran(LdVxKOpcodes) =>
            /\ panic' = "none"
            /\ \/ cpu'.pc = cpu.pc /\ cpu'.v = cpu.v
               \/ cpu'.pc = cpu.pc + 2 /\ ResultX \in 0..15]_vars

----------------------------------------------------------------------------
(* Glyphs and loading: C21 to C23 *)

LdFOpcodes == {o \in 61440..65535 : o % 256 = 41}

\* the glyph table is where Cpu::load puts it
GlyphTableAt(memory) ==
    \A k \in 1..Len(BOOTROM) : MemAt(memory, k - 1) = BOOTROM[k]

\* C21: right after construction, after reset() and after load(rom) the
\* glyph table is at memory[0x000..0x04F], and a cycle that runs LD I,F(Vx)
\* with Vx in 0..F leaves I = 5 * Vx, with the 5 bytes of glyph Vx at
\* memory[I..I+4].
C21_GlyphTableSeeded ==
    /\ [](last.op \in {"new", "reset", "load"} => GlyphTableAt(cpu.memory))
    /\ [][Ran(LdFOpcodes) /\ OperandA \in 0..15 =>
              /\ cpu'.i = 5 * OperandA
              /\ \A k \in 0..4 :
                    MemAt(cpu'.memory, cpu'.i + k) = BOOTROM[5 * OperandA + k + 1]]_vars

\* the bytes the program region holds (0x200..0xFFF)
RomCapacity == MemorySize - ProgramStart

\* the first instruction of the loaded ROM
FirstWord == loaded[1] * 256 + loaded[2]

\* right after load() of a ROM that fits, memory holds the ROM, byte for byte,
\* from 0x200, and pc is 0x200
LoadPlacesRom ==
    (last.op = "load" /\ Len(loaded) <= RomCapacity) =>
        /\ cpu.pc = ProgramStart
        /\ \A k \in 1..Len(loaded) :
              MemAt(cpu.memory, ProgramStart + k - 1) = loaded[k]

\* C22: after load(rom) of a ROM that fits, memory[0x200 + i] = rom[i] for
\* every i < len(rom) and pc = 0x200, and the first step fetches the word
\* rom[0] * 256 + rom[1].
C22_LoadThenFirstFetch ==
    /\ []LoadPlacesRom
    /\ [][(/\ last.op = "load"
           /\ Len(loaded) >= 2 /\ Len(loaded) <= RomCapacity
           /\ last'.op = "cycle") => last'.opcode = FirstWord]_vars

\* LD V0,5; LD DT,V0; LD V1,DT; JP 0x204: a program that keeps running
CountdownLoop == <<24581, 61461, 61703, 4612>>

\* ROMs around the size of the program region: one that fills it exactly
\* (0xE00 bytes), one a single byte longer, one four bytes longer
LargeRoms ==
    { RomWithTail(CountdownLoop, MemorySize - 2, <<4660>>),
      Append(RomWithTail(CountdownLoop, MemorySize - 2, <<4660>>), 86),
      RomWithTail(CountdownLoop, MemorySize - 2, <<4660, 22136, 39612>>) }

\* the host loads one large ROM into a new Chip and cycles it
NextLarge ==
    \/ last.op = "new" /\ \E rom \in LargeRoms : Load(rom)
    \/ /\ cycles < MaxCycles
       /\ \E adv \in 0..GateQuanta : Cycle(adv, 0, TRUE)

SpecLarge == Init /\ [][NextLarge]_vars

\* C23: load(rom) of a ROM longer than the program region leaves the machine
\* Halted, and it stays so: no prefix of the ROM is left to run.
C23_RomTooLargeHalts == Len(loaded) > RomCapacity => cpu.halted

----------------------------------------------------------------------------
(* Memory instructions: C24 to C27 *)

\* where I points, which register is named, and what it holds
MemI == {768, 4080, 4094, 4095}
MemX == {0, 1, 2, 14, 15}
MemBytes == {0, 7, 13, 14, 99, 100, 128, 255}

\* V0, V1, V2, VE, VF filled, then Vx = v; V0..Vx stored at I = a; loaded
\* from the glyph table, and back from a; ADD I,Vx; LD B,Vx; LD I,F(Vx); EXIT
MemRoms ==
    { RomOf(<<24593, 24866, 25139, 28398, 28657, 24576 + 256 * x + v,
              40960 + a, 61525 + 256 * x,
              40962, 61541 + 256 * x,
              40960 + a, 61541 + 256 * x,
              61470 + 256 * x, 61491 + 256 * x, 61481 + 256 * x, 253>>) :
        a \in MemI, x \in MemX, v \in MemBytes }

\* the host loads one of these ROMs into a new Chip and cycles it to its end
NextMem ==
    \/ last.op = "new" /\ \E rom \in MemRoms : Load(rom)
    \/ ~cpu.halted /\ Cycle(1, 0, TRUE)

SpecMem == Init /\ [][NextMem]_vars

StoreOpcodes == {o \in 61440..65535 : o % 256 = 85}
LoadOpcodes == {o \in 61440..65535 : o % 256 = 101}
BcdOpcodes == {o \in 61440..65535 : o % 256 = 51}
AddIOpcodes == {o \in 61440..65535 : o % 256 = 30}

\* the x of the instruction about to run
NextX == OpX(NextOp(cpu).opcode)

\* the cycle leaves every memory cell outside `cells` as it was
MemoryKeptOutside(cells) ==
    \A a \in ((DOMAIN cpu.memory) \cup (DOMAIN cpu'.memory)) \ cells :
        MemAt(cpu'.memory, a) = MemAt(cpu.memory, a)

\* C24: with I + x <= 0xFFF, LD [I],Vx leaves memory[I + k] = Vk for
\* k = 0..x, Vx included, and every other cell, every register and I as they
\* were; LD Vx,[I] leaves Vk = memory[I + k] for k = 0..x and the registers
\* above Vx as they were.
C24_BlockTransfers ==
    [][/\ (Ran(StoreOpcodes) /\ cpu.i + NextX <= MemorySize - 1) =>
            /\ panic' = "none"
            /\ \A k \in 0..NextX : MemAt(cpu'.memory, cpu.i + k) = cpu.v[k]
            /\ MemoryKeptOutside(cpu.i .. (cpu.i + NextX))
            /\ cpu'.v = cpu.v /\ cpu'.i = cpu.i
       /\ (Ran(LoadOpcodes) /\ cpu.i + NextX <= MemorySize - 1) =>
            /\ panic' = "none"
            /\ \A k \in 0..15 :
                  cpu'.v[k] = IF k <= NextX THEN MemAt(cpu.memory, cpu.i + k)
                                            ELSE cpu.v[k]
            /\ cpu'.memory = cpu.memory /\ cpu'.i = cpu.i]_vars

\* the instruction about to run names a range of memory that passes 0xFFF
PastMemoryEnd ==
    \/ Ran(StoreOpcodes \cup LoadOpcodes) /\ cpu.i + NextX > MemorySize - 1
    \/ Ran(BcdOpcodes) /\ cpu.i + 2 > MemorySize - 1

\* C25: LD [I],Vx or LD Vx,[I] with I + x > 0xFFF, and LD B,Vx with
\* I + 2 > 0xFFF, halt the machine without aborting the host, and transfer
\* nothing: memory and registers are as they were.
C25_MemoryBoundsHalts ==
    [][PastMemoryEnd =>
            /\ panic' = "none"
            /\ cpu'.halted
            /\ cpu'.memory = cpu.memory
            /\ cpu'.v = cpu.v]_vars

\* C26: with I <= 0xFFD, LD B,Vx leaves the hundreds, tens and ones digit of
\* Vx at memory[I], memory[I + 1], memory[I + 2], and every other memory cell,
\* every register, I and the stack as they were.
C26_BcdDigits ==
    [][(Ran(BcdOpcodes) /\ cpu.i <= MemorySize - 3) =>
            /\ panic' = "none"
            /\ MemAt(cpu'.memory, cpu.i) = OperandA \div 100
            /\ MemAt(cpu'.memory, cpu.i + 1) = (OperandA \div 10) % 10
            /\ MemAt(cpu'.memory, cpu.i + 2) = OperandA % 10
            /\ MemoryKeptOutside(cpu.i .. (cpu.i + 2))
            /\ cpu'.v = cpu.v /\ cpu'.i = cpu.i
            /\ cpu'.sp = cpu.sp /\ cpu'.stack = cpu.stack
            /\ cpu'.dt = cpu.dt /\ cpu'.st = cpu.st]_vars

\* LD B,V0 has just run with V0 = 255 and I = 0x3FF: 2, 5, 5 from there on,
\* and the bytes stored before at 0x300 are still there
C26_Witness ==
    /\ last.op = "cycle" /\ last.opcode = 61491
    /\ cpu.v[0] = 255 /\ cpu.i = 1023
    /\ MemAt(cpu.memory, 1023) = 2
    /\ MemAt(cpu.memory, 1024) = 5
    /\ MemAt(cpu.memory, 1025) = 5
    /\ cpu.v[1] = 34 /\ cpu.v[15] = 241
    /\ panic = "none"

LdIOpcodes == 40960..45055

----------------------------------------------------------------------------
(* Shift encodings and running off the end: C28, C29 *)

ShlEOpcodes == AluOpcodes(14)

\* C28: with x in 0..E, a cycle that fetches 0x8xyE leaves Vx = (2*a) mod 256,
\* VF = a div 128 and pc 2 further; one that fetches 0x8xy6 leaves
\* Vx = a div 2, VF = a mod 2 and pc 2 further.
C28_ShiftEncodings ==
    [][/\ (Ran(ShlEOpcodes) /\ NotOnFlag) =>
            /\ ResultX = (2 * OperandA) % 256
            /\ cpu'.v[CARRY] = OperandA \div 128
            /\ cpu'.pc = cpu.pc + 2
       /\ (Ran(ShrOpcodes) /\ NotOnFlag) =>
            /\ ResultX = OperandA \div 2
            /\ cpu'.v[CARRY] = OperandA % 2
            /\ cpu'.pc = cpu.pc + 2]_vars

\* JP, CALL, JP V0,addr and RET
JumpOpcodes == (4096..12287) \cup (45056..49151) \cup {RetOpcode}

\* no instruction word of the ROM is a jump
JumpFree(rom) ==
    \A k \in 1..(Len(rom) \div 2) :
        rom[2 * k - 1] * 256 + rom[2 * k] \notin JumpOpcodes

\* ROMs without a jump: nothing but zeros (SYS all the way); skips, taken and
\* not, an undefined opcode and EXIT; SKP V0
RunOffRoms ==
    { << >>,
      RomOf(<<24581, 12293, 0, 16389, 32777, 0, 253>>),
      RomOf(<<57502>>) }

\* the host loads one of these ROMs into a new Chip and cycles it, frame
\* after frame
NextRunOff ==
    \/ last.op = "new" /\ \E rom \in RunOffRoms : Load(rom)
    \/ Cycle(1, 0, TRUE)

SpecRunOff == Init /\ [][NextRunOff]_vars /\ WF_vars(NextRunOff)

\* C29: after load(rom) of a ROM without JP, CALL, RET and JP V0,addr, every
\* step of the running machine moves pc up, by 2 at least, so that after k
\* steps pc >= 0x200 + 2k; the machine gets to Halted, and from then on pc
\* stays as it is.
C29_RunsOffTheEnd ==
    /\ [][(JumpFree(loaded) /\ last'.op = "cycle") =>
              /\ ~cpu.halted => cpu'.pc >= cpu.pc + 2
              /\ cpu.halted => (cpu'.halted /\ cpu'.pc = cpu.pc)]_vars
    /\ []((JumpFree(loaded) /\ ~cpu.halted /\ last.op \in {"load", "cycle"}
            /\ cycles < MaxCycles) => cpu.pc >= ProgramStart + 2 * cycles)
    /\ (last.op = "load" /\ JumpFree(loaded)) ~> cpu.halted

\* every run either gets to Halted or is aborted by a panic
HaltsUnlessAborted ==
    (last.op = "load" /\ JumpFree(loaded)) ~> (cpu.halted \/ panic # "none")

====
